---- MODULE Spec2Model ----
(***************************************************************************)
(* Model of .github/scripts/assign_reviewer.py: the sprint-based rotation  *)
(* of a primary pull-request reviewer.  One behaviour is a sequence of     *)
(* invocations of the script (fresh processes) on the same pull request,   *)
(* with a fixed MAINTAINERS.md and config.json, while wall-clock time      *)
(* advances between invocations.                                           *)
(***************************************************************************)
EXTENDS Integers, Sequences, FiniteSets, TLC

\* ---------------------------------------------------------------- bounds
MaxPoolSize == 3      \* largest pool_size a config.json of the model holds
MaxRuns == 2          \* how many times the script is invoked in one behaviour
MaxTicks == 1         \* how many days the clock advances in one behaviour

\* ------------------------------------------------------------- constants
SPRINT_WEEKS == 3

\* Days between datetime(2024, 1, 1) and the clock at the start of a behaviour.
StartDays == {-22, -1, 20, 63}

Range(s) == {s[i] : i \in 1..Len(s)}
Min(a, b) == IF a <= b THEN a ELSE b

\* ------------------------------------------------------- MAINTAINERS.md
\* A document is a sequence of tokens: "@name", "[name](https://github.com/name)"
\* or a plain word that neither pattern matches.
At(n) == [kind |-> "at", name |-> n]
Link(n) == [kind |-> "link", name |-> n]
Text(n) == [kind |-> "text", name |-> n]

MaintainerFiles ==
    { [present |-> FALSE, content |-> <<>>],
      [present |-> TRUE, content |-> <<>>],
      [present |-> TRUE, content |-> <<At("alice")>>],
      [present |-> TRUE, content |-> <<At("alice"), Link("bob")>>],
      [present |-> TRUE, content |-> <<At("alice"), At("bob"), At("carol")>>],
      [present |-> TRUE, content |-> <<At("bob"), Link("carol"), Text("dave"), At("bob")>>] }

\* ---------------------------------------------------------- config.json
SprintConfig(w, r, k) ==
    [has_sprint_config |-> TRUE, has_pool_size |-> TRUE,
     weeks_per_sprint |-> w, reviewers_per_pr |-> r, pool_size |-> k]

\* {} : valid JSON without the "sprint_config" record
JsonNoSprintConfig ==
    [has_sprint_config |-> FALSE, has_pool_size |-> FALSE,
     weeks_per_sprint |-> 0, reviewers_per_pr |-> 0, pool_size |-> 0]

\* {"sprint_config": {"weeks_per_sprint": 3, "reviewers_per_pr": 2}}
JsonNoPoolSize ==
    [has_sprint_config |-> TRUE, has_pool_size |-> FALSE,
     weeks_per_sprint |-> 3, reviewers_per_pr |-> 2, pool_size |-> 0]

ConfigFiles ==
    { [state |-> "absent", json |-> JsonNoSprintConfig],
      [state |-> "invalid", json |-> JsonNoSprintConfig],
      [state |-> "json", json |-> JsonNoSprintConfig],
      [state |-> "json", json |-> JsonNoPoolSize],
      [state |-> "json", json |-> SprintConfig(2, 2, 3)] }
    \cup { [state |-> "json", json |-> SprintConfig(3, 2, k)] : k \in 0..MaxPoolSize }

\* The value load_config returns in both of its except branches.
DefaultConfig == SprintConfig(3, 2, 3)

\* self.config before __init__ has run.
NoConfig == JsonNoSprintConfig

VARIABLES
    \* the environment
    maintainersFile,     \* MAINTAINERS.md
    configFile,          \* .github/scripts/config.json
    now,                 \* (datetime.now() - datetime(2024, 1, 1)).days
    ticks,               \* days the clock has advanced
    runs,                \* invocations started
    prReviewers,         \* the pull request's requested reviewers (remote)
    \* one invocation (a fresh process)
    pc,
    token,               \* GITHUB_TOKEN is set
    test_mode,
    config,              \* self.config
    current_reviewers,
    maintainers,
    sprint_number,
    reviewer_pool,
    reviewers_to_assign,
    success,             \* what run() returned: "none", "True", "False"
    exitCode,            \* -1 while the process runs
    crashed,             \* an exception escaped to the interpreter
    readFailed,          \* requests.get raised a RequestException
    remoteReads,         \* GET requests sent in this invocation
    configLoads,         \* calls of load_config in this invocation
    maintainerReads,     \* calls of get_maintainers in this invocation
    posts,               \* POST requests sent in this invocation
    prAtStart,           \* prReviewers when this invocation started
    \* history across invocations
    asked,               \* reviewers the remote was asked to add in this sprint
    firstPool            \* the first pool computed in this sprint

envVars == <<maintainersFile, configFile, now, ticks, runs>>
histVars == <<asked, firstPool>>
workVars == <<readFailed, remoteReads, configLoads, maintainerReads, posts>>
runVars == <<current_reviewers, maintainers, sprint_number, reviewer_pool,
             reviewers_to_assign>>
vars == <<maintainersFile, configFile, now, ticks, runs, prReviewers, pc, token,
          test_mode, config, current_reviewers, maintainers, sprint_number,
          reviewer_pool, reviewers_to_assign, success, exitCode, crashed,
          readFailed, remoteReads, configLoads, maintainerReads, posts,
          prAtStart, asked, firstPool>>

\* ------------------------------------------------------ pure functions

\* re.findall(at_pattern, content)
FindAllAt(content) ==
    {content[i].name : i \in {j \in 1..Len(content) : content[j].kind = "at"}}

\* re.findall(link_pattern, content)
FindAllLink(content) ==
    {content[i].name : i \in {j \in 1..Len(content) : content[j].kind = "link"}}

\* list(usernames): a set of str iterates in hash order, and str hashes are
\* randomized per process; every order of the elements is a possible outcome.
ListOfSet(S) ==
    {f \in [1..Cardinality(S) -> S] : \A i, j \in 1..Cardinality(S) : i # j => f[i] # f[j]}

\* get_maintainers: the lists one call may return.
get_maintainers ==
    IF ~maintainersFile.present
    THEN {<<>>}
    ELSE ListOfSet(FindAllAt(maintainersFile.content)
                   \cup FindAllLink(maintainersFile.content))

load_config ==
    IF configFile.state = "json" THEN configFile.json ELSE DefaultConfig

\* get_current_sprint_number: Python's // floors, as \div does.
get_current_sprint_number ==
    (now \div (SPRINT_WEEKS * 7)) + 1

\* seq[start:] and seq[:stop] for 0 <= start, stop
SliceFrom(seq, start) == SubSeq(seq, Min(start, Len(seq)) + 1, Len(seq))
SliceTo(seq, stop) == SubSeq(seq, 1, Min(stop, Len(seq)))

\* start_index with the "- 1" of line 127 forgotten.
start_index_off_by_one(m, s) == s % Len(m)

\* Python's % has the sign of the divisor, as % does for a positive divisor.
start_index(m, s) == (s - 1) % Len(m)

rotated_pool(m, s) == SliceFrom(m, start_index(m, s)) \o SliceTo(m, start_index(m, s))

current_pool(m, s, k) == SliceTo(rotated_pool(m, s), Min(k, Len(rotated_pool(m, s))))

\* self.config["sprint_config"]["pool_size"] raises KeyError
PoolSizeKeyError(c) == ~c.has_sprint_config \/ ~c.has_pool_size

\* ------------------------------------------------------------- actions

Init ==
    /\ maintainersFile \in MaintainerFiles
    /\ configFile \in ConfigFiles
    /\ now \in StartDays
    /\ ticks = 0
    /\ runs = 0
    /\ prReviewers \in {{"dave"}, {"alice", "dave"}}
    /\ pc = "idle"
    /\ token = FALSE
    /\ test_mode = FALSE
    /\ config = NoConfig
    /\ current_reviewers = {}
    /\ maintainers = <<>>
    /\ sprint_number = 0
    /\ reviewer_pool = <<>>
    /\ reviewers_to_assign = <<>>
    /\ success = "none"
    /\ exitCode = -1
    /\ crashed = FALSE
    /\ readFailed = FALSE
    /\ remoteReads = 0
    /\ configLoads = 0
    /\ maintainerReads = 0
    /\ posts = <<>>
    /\ prAtStart = prReviewers
    /\ asked = {}
    /\ firstPool = [seen |-> FALSE, pool |-> <<>>]

\* The sprint a clock reading falls in (get_current_sprint_number at that time).
SprintAt(t) == (t \div (SPRINT_WEEKS * 7)) + 1

\* A new process, d days after the last one: main() parses its arguments and
\* reads GITHUB_TOKEN.  The history is that of the sprint the clock is in.
StartInvocation ==
    /\ pc \in {"idle", "exited"}
    /\ runs < MaxRuns
    /\ runs' = runs + 1
    /\ \E tok \in BOOLEAN, tm \in BOOLEAN :
          /\ token' = tok
          /\ test_mode' = tm
    /\ \E d \in 0..1 :
          /\ ticks + d <= MaxTicks
          /\ now' = now + d
          /\ ticks' = ticks + d
    /\ IF SprintAt(now') = SprintAt(now)
       THEN UNCHANGED histVars
       ELSE /\ asked' = {}
            /\ firstPool' = [seen |-> FALSE, pool |-> <<>>]
    /\ pc' = "main"
    /\ config' = NoConfig
    /\ current_reviewers' = {}
    /\ maintainers' = <<>>
    /\ sprint_number' = 0
    /\ reviewer_pool' = <<>>
    /\ reviewers_to_assign' = <<>>
    /\ success' = "none"
    /\ exitCode' = -1
    /\ crashed' = FALSE
    /\ readFailed' = FALSE
    /\ remoteReads' = 0
    /\ configLoads' = 0
    /\ maintainerReads' = 0
    /\ posts' = <<>>
    /\ prAtStart' = prReviewers
    /\ UNCHANGED <<maintainersFile, configFile, prReviewers>>

\* main with the "if not success: sys.exit(1)" of lines 233-234 left out.
ExitIgnoresResult(ok) ==
    /\ success' = IF ok THEN "True" ELSE "False"
    /\ exitCode' = 0
    /\ pc' = "exited"

\* main: success = assigner.run(...); if not success: sys.exit(1)
Exit(ok) ==
    /\ success' = IF ok THEN "True" ELSE "False"
    /\ exitCode' = IF ok THEN 0 ELSE 1
    /\ pc' = "exited"

\* An exception nothing catches: the interpreter prints it and exits with 1.
Crash ==
    /\ crashed' = TRUE
    /\ exitCode' = 1
    /\ pc' = "exited"
    /\ UNCHANGED success

\* main constructing the assigner before it looks at the token.
MainChecksTokenLate ==
    /\ pc = "main"
    /\ config' = load_config
    /\ configLoads' = configLoads + 1
    /\ IF ~token
       THEN /\ exitCode' = 1
            /\ pc' = "exited"
       ELSE /\ pc' = "run"
            /\ UNCHANGED exitCode
    /\ UNCHANGED <<envVars, prReviewers, token, test_mode, success, crashed,
                   readFailed, remoteReads, maintainerReads, posts, prAtStart>>
    /\ UNCHANGED <<runVars, histVars>>

\* main: the token check, then ReviewerAssigner.__init__ (load_config).
Main ==
    /\ pc = "main"
    /\ IF ~token
       THEN /\ exitCode' = 1
            /\ pc' = "exited"
            /\ UNCHANGED <<config, configLoads>>
       ELSE /\ config' = load_config
            /\ configLoads' = configLoads + 1
            /\ pc' = "run"
            /\ UNCHANGED exitCode
    /\ UNCHANGED <<envVars, prReviewers, token, test_mode, success, crashed,
                   readFailed, remoteReads, maintainerReads, posts, prAtStart>>
    /\ UNCHANGED <<runVars, histVars>>

\* get_pr_reviewers sending the GET a second time when the first one fails.
GetPrReviewersRetries ==
    /\ pc = "run"
    /\ \E ok \in BOOLEAN, ok2 \in BOOLEAN :
          /\ readFailed' = (~ok /\ ~ok2)
          /\ current_reviewers' = IF ok \/ ok2 THEN prReviewers ELSE {}
          /\ remoteReads' = remoteReads + (IF ok THEN 1 ELSE 2)
    /\ pc' = "pool"
    /\ UNCHANGED <<envVars, prReviewers, token, test_mode, config, maintainers,
                   sprint_number, reviewer_pool, reviewers_to_assign, success,
                   exitCode, crashed, configLoads, maintainerReads, posts,
                   prAtStart>>
    /\ UNCHANGED histVars

\* run: current_reviewers = self.get_pr_reviewers(pr_number)
GetPrReviewers ==
    /\ pc = "run"
    /\ \E ok \in BOOLEAN :
          /\ readFailed' = ~ok
          /\ current_reviewers' = IF ok THEN prReviewers ELSE {}
    /\ remoteReads' = remoteReads + 1
    /\ pc' = "pool"
    /\ UNCHANGED <<envVars, prReviewers, token, test_mode, config, maintainers,
                   sprint_number, reviewer_pool, reviewers_to_assign, success,
                   exitCode, crashed, configLoads, maintainerReads, posts,
                   prAtStart>>
    /\ UNCHANGED histVars

\* run without the "already assigned" test of lines 205-207.
DecideAlwaysAssigns(pool, current) ==
    IF pool = <<>>
    THEN /\ Exit(FALSE)
         /\ UNCHANGED reviewers_to_assign
    ELSE /\ reviewers_to_assign' = <<pool[1]>>
         /\ pc' = "assign"
         /\ UNCHANGED <<success, exitCode>>

\* run, from "if not reviewer_pool" to the call of assign_reviewers
Decide(pool, current) ==
    IF pool = <<>>
    THEN /\ Exit(FALSE)
         /\ UNCHANGED reviewers_to_assign
    ELSE IF pool[1] \in current
    THEN /\ Exit(TRUE)
         /\ UNCHANGED reviewers_to_assign
    ELSE /\ reviewers_to_assign' = <<pool[1]>>
         /\ pc' = "assign"
         /\ UNCHANGED <<success, exitCode>>

\* run: reviewer_pool = self.get_reviewer_pool(), then the decision on it
GetReviewerPool ==
    /\ pc = "pool"
    /\ maintainerReads' = maintainerReads + 1
    /\ \E m \in get_maintainers :
          /\ maintainers' = m
          /\ IF m = <<>>
             THEN /\ reviewer_pool' = <<>>
                  /\ Decide(<<>>, current_reviewers)
                  /\ UNCHANGED <<sprint_number, crashed, firstPool>>
             ELSE /\ sprint_number' = get_current_sprint_number
                  /\ IF PoolSizeKeyError(config)
                     THEN /\ Crash
                          /\ UNCHANGED <<reviewer_pool, firstPool, reviewers_to_assign>>
                     ELSE /\ reviewer_pool' =
                                current_pool(m, get_current_sprint_number,
                                             config.pool_size)
                          /\ firstPool' =
                                IF firstPool.seen
                                THEN firstPool
                                ELSE [seen |-> TRUE, pool |-> reviewer_pool']
                          /\ Decide(reviewer_pool', current_reviewers)
                          /\ UNCHANGED crashed
    /\ UNCHANGED <<envVars, prReviewers, token, test_mode, config,
                   current_reviewers, readFailed, remoteReads, configLoads,
                   posts, prAtStart, asked>>

\* assign_reviewers without the test-mode return of lines 172-174.
AssignReviewersIgnoresTestMode ==
    /\ pc = "assign"
    /\ IF reviewers_to_assign = <<>>
       THEN /\ Exit(FALSE)
            /\ UNCHANGED <<posts, prReviewers, asked>>
       ELSE \E ok \in BOOLEAN :
               /\ posts' = Append(posts, [reviewers |-> reviewers_to_assign,
                                          ok |-> ok])
               /\ prReviewers' = IF ok
                                 THEN prReviewers \cup Range(reviewers_to_assign)
                                 ELSE prReviewers
               /\ asked' = asked \cup Range(reviewers_to_assign)
               /\ Exit(ok)
    /\ UNCHANGED <<envVars, token, test_mode, config, crashed, readFailed,
                   remoteReads, configLoads, maintainerReads, prAtStart,
                   firstPool>>
    /\ UNCHANGED runVars

\* assign_reviewers, and main's exit on its result
AssignReviewers ==
    /\ pc = "assign"
    /\ IF reviewers_to_assign = <<>>
       THEN /\ Exit(FALSE)
            /\ UNCHANGED <<posts, prReviewers, asked>>
       ELSE IF test_mode
       THEN /\ Exit(TRUE)
            /\ UNCHANGED <<posts, prReviewers, asked>>
       ELSE \E ok \in BOOLEAN :
               /\ posts' = Append(posts, [reviewers |-> reviewers_to_assign,
                                          ok |-> ok])
               /\ prReviewers' = IF ok
                                 THEN prReviewers \cup Range(reviewers_to_assign)
                                 ELSE prReviewers
               /\ asked' = asked \cup Range(reviewers_to_assign)
               /\ Exit(ok)
    /\ UNCHANGED <<envVars, token, test_mode, config, crashed, readFailed,
                   remoteReads, configLoads, maintainerReads, prAtStart,
                   firstPool>>
    /\ UNCHANGED runVars

Step == Main \/ GetPrReviewers \/ GetReviewerPool \/ AssignReviewers

Next == StartInvocation \/ Step

Spec == Init /\ [][Next]_vars

\* ------------------------------------------------- states the claims use

Exited == pc = "exited"

\* get_reviewer_pool has returned in this invocation.
PoolComputed == pc \in {"assign", "exited"} /\ maintainerReads = 1 /\ ~crashed

\* get_current_sprint_number has returned in this invocation.
SprintComputed == maintainerReads = 1 /\ maintainers # <<>>

\* run reached line 210: the primary is not among the observed reviewers.
WriteDecided ==
    PoolComputed /\ reviewer_pool # <<>> /\ reviewer_pool[1] \notin current_reviewers

AlreadyAssigned ==
    PoolComputed /\ reviewer_pool # <<>> /\ reviewer_pool[1] \in current_reviewers

WriteSucceeded == Len(posts) = 1 /\ posts[1].ok

\* config.json is missing or malformed.
Malformed(f) == f.state # "json" \/ PoolSizeKeyError(f.json)

Abs(x) == IF x < 0 THEN -x ELSE x

\* (s - 1) mod n, from the definition of the remainder: the o in 0..n-1 with
\* s - 1 = q * n + o for an integer q (|q| <= |s - 1| as n >= 1).
Offset(s, n) ==
    CHOOSE o \in 0..(n - 1) : \E q \in -Abs(s - 1)..Abs(s - 1) : s - 1 = q * n + o

\* -------------------------------------------------------------- claims

\* C1: over the invocations made within one sprint, with the maintainer
\* document and the config unchanged, the remote is asked to add at most one
\* reviewer identifier, and no step removes a reviewer from the pull request.
C1_AtMostOneReviewerAsked ==
    [][Cardinality(asked') <= 1 /\ prReviewers \subseteq prReviewers']_vars

\* C2 (as amended): an invocation sends a reviewer write if and only if it is
\* not in test mode, the pool is non-empty and the primary is not in the
\* observed reviewer set; it then sends exactly one, for [primary].  With the
\* primary already observed it sends none and reports success.
C2_WriteIffDecidedAndNotDryRun ==
    Exited =>
        /\ (posts # <<>>) <=> (~test_mode /\ WriteDecided)
        /\ posts # <<>> =>
              /\ Len(posts) = 1
              /\ posts[1].reviewers = <<reviewer_pool[1]>>
        /\ AlreadyAssigned =>
              /\ posts = <<>>
              /\ success = "True"
              /\ exitCode = 0

C2_Witness ==
    Exited /\ ~test_mode /\ WriteDecided /\ Len(posts) = 1

\* C2 as stated: a write is sent if and only if the pool is non-empty and the
\* primary is not in the observed reviewer set.
C2_WriteIffDecided ==
    Exited =>
        /\ (posts # <<>>) <=> WriteDecided
        /\ posts # <<>> =>
              /\ Len(posts) = 1
              /\ posts[1].reviewers = <<reviewer_pool[1]>>
        /\ AlreadyAssigned =>
              /\ posts = <<>>
              /\ success = "True"
              /\ exitCode = 0

\* C3: the exit status is 0 exactly when the run succeeded (primary already a
\* reviewer, write succeeded, or write simulated in test mode); it is non-zero
\* when the pool is empty, the write fails or the token is missing; and a
\* running invocation always has a next step until it has exited with 0 or 1.
C3_ExitStatus ==
    /\ exitCode \in {-1, 0, 1}
    /\ Exited <=> exitCode # -1
    /\ pc \in {"main", "run", "pool", "assign"} => ENABLED Step
    /\ Exited =>
          /\ exitCode = 0 <=>
                /\ token
                /\ PoolComputed
                /\ reviewer_pool # <<>>
                /\ \/ reviewer_pool[1] \in current_reviewers
                   \/ test_mode
                   \/ WriteSucceeded
          /\ exitCode = 0 <=> success = "True"
          /\ ~token => exitCode # 0
          /\ (PoolComputed /\ reviewer_pool = <<>>) => exitCode # 0
          /\ (posts # <<>> /\ ~posts[Len(posts)].ok) => exitCode # 0

C3_Witness ==
    Exited /\ WriteDecided /\ ~test_mode /\ WriteSucceeded /\ exitCode = 0

C5_MalformedConfigUsesDefaults ==
    (token /\ configLoads = 1 /\ Malformed(configFile)) =>
        /\ ~crashed
        /\ Exited => success # "none"
        /\ (PoolComputed /\ maintainers # <<>>) =>
              reviewer_pool = current_pool(maintainers, sprint_number, 3)

\* C6: two invocations that read the same maintainer document and config in
\* the same sprint compute the identical ordered pool.
C6_PoolDeterministic ==
    (PoolComputed /\ maintainers # <<>> /\ firstPool.seen) =>
        reviewer_pool = firstPool.pool

\* C7: for maintainers M, sprint number s (also s <= 0) and pool size k >= 0,
\* the pool is the first min(k, |M|) elements of M rotated left by
\* (s - 1) mod |M|, an offset in 0..|M|-1; for k = |M| it holds the elements
\* of M; for empty M it is empty.
C7_PoolIsRotationPrefix ==
    PoolComputed =>
        IF maintainers = <<>>
        THEN reviewer_pool = <<>>
        ELSE LET n == Len(maintainers)
                 k == config.pool_size
                 off == Offset(sprint_number, n)
             IN  /\ k >= 0
                 /\ off \in 0..(n - 1)
                 /\ start_index(maintainers, sprint_number) = off
                 /\ Len(reviewer_pool) = Min(k, n)
                 /\ \A i \in 1..Len(reviewer_pool) :
                       reviewer_pool[i] = maintainers[((off + i - 1) % n) + 1]
                 /\ k = n => Range(reviewer_pool) = Range(maintainers)

\* A sprint number <= 0, three maintainers, a pool of two that wraps around.
C7_Witness ==
    /\ PoolComputed
    /\ sprint_number = 0
    /\ Len(maintainers) = 3
    /\ Len(reviewer_pool) = 2
    /\ reviewer_pool = <<maintainers[3], maintainers[1]>>

\* C8: from the epoch on, the sprint number is
\* floor(days / (weeksPerSprint * 7)) + 1 >= 1 for the weeksPerSprint of the
\* loaded configuration.
C8_SprintUsesConfiguredWeeks ==
    (SprintComputed /\ now >= 0 /\ config.has_sprint_config) =>
        /\ sprint_number = (now \div (config.weeks_per_sprint * 7)) + 1
        /\ sprint_number >= 1

\* C9: without the token the process exits non-zero before any other work:
\* no config load, no maintainer read, no remote read, no remote write.
C9_NoWorkWithoutCredential ==
    (pc # "idle" /\ ~token) =>
        /\ pc \in {"main", "exited"}
        /\ configLoads = 0
        /\ maintainerReads = 0
        /\ remoteReads = 0
        /\ posts = <<>>
        /\ prReviewers = prAtStart
        /\ Exited => (exitCode = 1 /\ success = "none")

C9_Witness ==
    Exited /\ ~token /\ exitCode = 1

\* C10: in test mode an invocation that decides to assign the primary sends
\* no write, leaves the pull request's reviewers as they were, and exits 0.
C10_DryRunWritesNothing ==
    test_mode =>
        /\ posts = <<>>
        /\ prReviewers = prAtStart
        /\ (Exited /\ WriteDecided) => (success = "True" /\ exitCode = 0)

C10_Witness ==
    Exited /\ test_mode /\ WriteDecided /\ exitCode = 0

====
